---------------------------- MODULE Spec2Model ----------------------------
(***************************************************************************)
(* A model of the weather station of nialljmiller/tempestas:               *)
(* src/weather_station.py (the main loop, the sampling passes, the         *)
(* transfer cycle with its retrying copy, the retention truncation) and    *)
(* the median of src/sensortestor.py.                                      *)
(*                                                                         *)
(* Time is a simulated wall clock in whole seconds.  A reading is a        *)
(* fixed-point number with one fractional bit (the integer 2*x stands for  *)
(* the float x), so that the mean of two readings is exact.                *)
(***************************************************************************)
EXTENDS Integers, Sequences, FiniteSets, TLC

(***************************************************************************)
(* Program constants (src/weather_station.py, "Config").                   *)
(***************************************************************************)
SCP_MAX_RETRIES == 3
SAMPLE_BLOCK_SECONDS == 300
DELETE_BLOCK_SECONDS == 600
MEDIAN_SAMPLES_DURATION == 5
\* time.sleep(5) between two copy attempts, time.sleep(2) after a sensor error
SCP_BACKOFF_SECONDS == 5
ERROR_SLEEP_SECONDS == 2

(***************************************************************************)
(* Bounds of the model.                                                    *)
(***************************************************************************)
\* The cap K on the candidate images.  The source sets 100; the selection
\* code is the same for every K and the model runs it with a small K.
MAX_IMAGE_FILES == 2
\* images left in IMAGE_DIR by an earlier run
MaxOldImages == 2
\* no loop iteration starts after this time
MaxClock == 1000
\* What the environment may do to one run: a failing invocation of the copy
\* primitive and a slow copy spend one unit each, a failing sensor read two.
MaxDisturbances == 3
\* seconds a slow copy takes
SlowCopySeconds == 320
\* sample attempts of one windowed pass
NSamples == 2
\* the greatest reading is MaxReading (fixed point: 2 * MaxReading)
MaxReading == 2
\* longest sample window given to the aggregation
MaxWindow == 4
\* wall-clock seconds a windowed pass lasts beyond its sample_duration
WindowLags == {95}
\* stabilisation iterations of take_pic when the light is not low (4..30)
StabIterations == {4}

(***************************************************************************)
(* Readings.                                                               *)
(***************************************************************************)
\* np.nan, the "unavailable" marker: a value outside the readings' range
NaN == 0 - 1
\* a property of the DHT driver holds None until its first good read
None == 0 - 3
Fixed(x) == 2 * x
ValidReadings == {Fixed(x) : x \in 0..MaxReading}
Readings == ValidReadings \cup {NaN}
\* what a healthy sensor returns in the main loop's passes
GoodReading == Fixed(1)
isnan(x) == x = NaN


(***************************************************************************)
(* Aggregation: sorted(), median() of src/sensortestor.py and the          *)
(* np.nanmedian calls of makedata_time.                                    *)
(***************************************************************************)
RECURSIVE insert(_, _)
insert(x, s) ==
    IF s = << >> THEN <<x>>
    ELSE IF x <= Head(s) THEN <<x>> \o s
    ELSE <<Head(s)>> \o insert(x, Tail(s))

RECURSIVE sorted(_)
sorted(data) ==
    IF data = << >> THEN << >> ELSE insert(Head(data), sorted(Tail(data)))

\* raised by sorted_data[n // 2] on an empty list
IndexError == 0 - 2

\* Python indexes from 0: sorted_data[i] is sorted_data[i + 1] here.
median(data) ==
    LET sorted_data == sorted(data)
        n == Len(sorted_data)
    IN  IF n = 0 THEN IndexError
        ELSE IF n % 2 = 1 THEN sorted_data[(n \div 2) + 1]
        ELSE LET mid1 == sorted_data[(n \div 2) - 1 + 1]
                 mid2 == sorted_data[(n \div 2) + 1]
             IN  (mid1 + mid2) \div 2

\* a nanmedian that takes the upper of the two central values
nanmedian_upper(a) ==
    LET kept == SelectSeq(a, LAMBDA x : ~isnan(x))
        part == sorted(kept)
        n == Len(part)
    IN  IF n = 0 THEN NaN ELSE part[(n \div 2) + 1]

\* np.nanmedian(a): the NaN entries are dropped, an empty remainder gives
\* NaN (with a warning), otherwise the median of the partitioned remainder.
nanmedian(a) ==
    LET kept == SelectSeq(a, LAMBDA x : ~isnan(x))
        part == sorted(kept)
        n == Len(part)
    IN  IF n = 0 THEN NaN
        ELSE IF n % 2 = 0 THEN (part[n \div 2] + part[(n \div 2) + 1]) \div 2
        ELSE part[(n \div 2) + 1]

(***************************************************************************)
(* Sensor and host-metric reads.  A fault names the driver call that       *)
(* fails during one sample attempt and the exception it raises.            *)
(***************************************************************************)
Sensors ==
    {"bmp_temperature", "bmp_pressure", "bmp_altitude", "bh1750", "dht",
     "cpu_temp", "cpu_usage", "memory"}
\* RuntimeError is what main calls a sensor error; OSError stands for every
\* other exception a driver raises (an I2C bus error is an OSError)
ErrorKinds == {"RuntimeError", "OSError"}
NoFault == [sensor |-> "none", kind |-> "none"]
Faults ==
    [sensor : Sensors, kind : ErrorKinds] \cup {[sensor |-> "dht", kind |-> "None"]}

Returned(v) == [raised |-> "none", value |-> v]
Raised(kind) == [raised |-> kind, value |-> NaN]

\* the call into the driver library (or psutil, or /sys)
DriverRead(sensor, raw, f) ==
    IF f.sensor # sensor THEN Returned(raw)
    ELSE IF f.kind = "None" THEN Returned(None)
    ELSE Raised(f.kind)

\* None gives the default np.nan; float(x) of a float is x
safe_float(x) == IF x = None THEN NaN ELSE x

\* nan / 100.0 is nan
ToHectopascal(x) == IF isnan(x) THEN NaN ELSE x \div 100

\* safe_float(bmp_sensor.read_...()): the argument is evaluated before
\* safe_float is entered, so an exception of the driver is not caught
bmp_read(sensor, raw, f) ==
    LET r == DriverRead(sensor, raw, f)
    IN  IF r.raised # "none" THEN r ELSE Returned(safe_float(r.value))

read_bh1750(f) ==
    LET r == DriverRead("bh1750", GoodReading, f)
    IN  IF r.raised # "none" THEN Returned(NaN)
        ELSE Returned(safe_float(r.value))

\* returns the pair (t, h); (nan, nan) on any exception
read_dht(f) ==
    LET r == DriverRead("dht", GoodReading, f)
    IN  IF r.raised # "none" THEN Returned(<<NaN, NaN>>)
        ELSE Returned(<<safe_float(r.value), safe_float(r.value)>>)

get_cpu_temp(f) ==
    LET r == DriverRead("cpu_temp", GoodReading, f)
    IN  IF r.raised # "none" THEN Returned(NaN) ELSE r

get_cpu_usage(f) == DriverRead("cpu_usage", GoodReading, f)

get_memory_usage(f) == DriverRead("memory", GoodReading, f)

\* The quantities in the order both passes read them.
Quantities ==
    <<"bmp_temperature", "pressure", "altitude", "light", "dht",
      "cpu_temp", "cpu_usage", "memory">>

ReadQuantity(q, f) ==
    CASE q = "bmp_temperature" ->
            bmp_read("bmp_temperature", GoodReading, f)
      [] q = "pressure" ->
            LET r == bmp_read("bmp_pressure", GoodReading * 100, f)
            IN  IF r.raised # "none" THEN r
                ELSE Returned(ToHectopascal(r.value))
      [] q = "altitude" -> bmp_read("bmp_altitude", GoodReading, f)
      [] q = "light" -> read_bh1750(f)
      [] q = "dht" -> read_dht(f)
      [] q = "cpu_temp" -> get_cpu_temp(f)
      [] q = "cpu_usage" -> get_cpu_usage(f)
      [] q = "memory" -> get_memory_usage(f)

\* One sample attempt: the reads in order, up to the first one that raises.
\* got holds the values read before it.
RECURSIVE ReadAll(_, _, _)
ReadAll(i, f, got) ==
    IF i > Len(Quantities) THEN [raised |-> "none", got |-> got]
    ELSE LET r == ReadQuantity(Quantities[i], f)
         IN  IF r.raised # "none" THEN [raised |-> r.raised, got |-> got]
             ELSE ReadAll(i + 1, f, Append(got, r.value))

(***************************************************************************)
(* Lines of the two CSV files.  writerow of the column names gives a       *)
(* header line, writerow of a timestamp and readings a row.                *)
(***************************************************************************)
HeaderLine(cells) == [kind |-> "header", cells |-> cells]
Row(cells) == [kind |-> "row", cells |-> cells]
IsHeader(line) == line.kind = "header"
SameLine(a, b) == a.kind = b.kind /\ a.cells = b.cells

\* makedata: one reading per quantity, then one row appended to each file.
\* A read that raises ends the pass before anything is written.
\* the two writerow calls of makedata, for the readings g
WriteRows(timestamp, g) ==
    [raised |-> "none",
     weather |-> <<Row(<<timestamp, g[1], g[2], g[3], g[5][1], g[5][2], g[4]>>)>>,
     system |-> <<Row(<<timestamp, g[6], g[7], g[8]>>)>>]

\* s is what the reads gave
makedata_after(s, timestamp) ==
    IF s.raised # "none"
    THEN [raised |-> s.raised, weather |-> << >>, system |-> << >>]
    ELSE WriteRows(timestamp, s.got)

makedata(f, timestamp) == makedata_after(ReadAll(1, f, << >>), timestamp)

\* The collection loop of makedata_time: every sample attempt appends what
\* it read before a raise (the except clause catches every Exception).
\* lists[i] is the list of Quantities[i].
\* one sample attempt: the appends done before a read raised
AppendSample(lists, got) ==
    [i \in 1..Len(Quantities) |->
        IF i <= Len(got) THEN Append(lists[i], got[i]) ELSE lists[i]]

RECURSIVE Collect(_, _, _)
Collect(k, fs, lists) ==
    IF k > Len(fs) THEN lists
    ELSE Collect(k + 1, fs, AppendSample(lists, ReadAll(1, fs[k], << >>).got))

Column(pairs, j) == [i \in 1..Len(pairs) |-> pairs[i][j]]

\* makedata_time: returns without writing when bmp_temps is empty, else
\* appends the nanmedian of every list
\* l holds the lists the sampling loop filled
makedata_time_after(l, timestamp) ==
    IF l[1] = << >>
    THEN [wrote |-> FALSE, weather |-> << >>, system |-> << >>]
    ELSE [wrote |-> TRUE,
          weather |-> <<Row(<<timestamp, nanmedian(l[1]), nanmedian(l[2]),
                              nanmedian(l[3]),
                              nanmedian(Column(l[5], 1)),
                              nanmedian(Column(l[5], 2)),
                              nanmedian(l[4])>>)>>,
          system |-> <<Row(<<timestamp, nanmedian(l[6]), nanmedian(l[7]),
                             nanmedian(l[8])>>)>>]

\* the lists are filled once, by the loop, before the medians are taken
makedata_time(fs, timestamp) ==
    CHOOSE r \in {makedata_time_after(l, timestamp) :
                     l \in {Collect(1, fs, [i \in 1..Len(Quantities) |-> << >>])}} :
        TRUE

(***************************************************************************)
(* The files.                                                              *)
(***************************************************************************)
\* the writerow of ensure_paths
WeatherHeader ==
    HeaderLine(<<"Timestamp", "BMP_Temperature_C", "BMP_Pressure_hPa",
                 "BMP_Altitude_m", "DHT_Temperature_C",
                 "DHT_Humidity_percent", "BH1750_Light_lx">>)
SystemHeader ==
    HeaderLine(<<"Timestamp", "CPU_Temperature_C", "CPU_Usage_percent",
                 "Memory_Usage_percent">>)

\* A file that does not exist is Absent; open(path, "w") leaves it empty
\* and writerow appends a line.
Absent == << >>
ensure_paths(file, header) == IF file = Absent THEN <<header>> ELSE file

\* a del_data that empties the weather file and writes no header
del_data_weather_empty == << >>

\* the writerow calls of del_data, after open(path, "w") emptied the file
del_data_weather ==
    <<HeaderLine(<<"Timestamp", "BMP_Temperature_C", "BMP_Pressure_hPa",
                   "BMP_Altitude_m", "DHT_Temperature_C",
                   "DHT_Humidity_percent", "BH1750_Light_lx">>)>>
del_data_system ==
    <<HeaderLine(<<"Timestamp", "CPU_Temperature_C", "CPU_Usage_percent",
                   "Memory_Usage_percent">>)>>

\* the timestamps of the rows of a file
RowStamps(file) ==
    {file[i].cells[1] : i \in {j \in 1..Len(file) : ~IsHeader(file[j])}}

\* sorted(glob.glob("*.jpg")): the names are capture times, here the
\* ordinal of the capture, so the order of the names is the order of creation
RECURSIVE SortedNames(_)
SortedNames(names) ==
    IF names = {} THEN << >>
    ELSE LET least == CHOOSE x \in names : \A y \in names : x <= y
         IN  <<least>> \o SortedNames(names \ {least})

\* a selection that keeps the head of the list, image_files[:MAX_IMAGE_FILES]
Candidates_oldest(names) ==
    LET image_files == SortedNames(names)
    IN  IF Len(image_files) > MAX_IMAGE_FILES
        THEN SubSeq(image_files, 1, MAX_IMAGE_FILES)
        ELSE image_files

\* a selection that keeps the newest image only, image_files[-1:]
Candidates_newest_only(names) ==
    LET image_files == SortedNames(names)
    IN  IF Len(image_files) > 1
        THEN SubSeq(image_files, Len(image_files), Len(image_files))
        ELSE image_files

\* image_files[-MAX_IMAGE_FILES:] when the list is longer than the cap
Candidates(names) ==
    LET image_files == SortedNames(names)
    IN  IF Len(image_files) > MAX_IMAGE_FILES
        THEN SubSeq(image_files, Len(image_files) - MAX_IMAGE_FILES + 1,
                    Len(image_files))
        ELSE image_files

(***************************************************************************)
(* scp_with_retries.  The copy primitive fails on its first `fails`        *)
(* invocations and succeeds on the later ones.  The result carries the     *)
(* trace of the invocations and of the waits between them.                 *)
(***************************************************************************)
CopySucceeds(attempt, fails) == attempt > fails

BackoffAfter(attempt) ==
    IF attempt < SCP_MAX_RETRIES THEN <<"sleep">> ELSE << >>

\* a retry loop that does not wait between two attempts
RECURSIVE scp_attempts_no_wait(_, _)
scp_attempts_no_wait(attempt, fails) ==
    IF attempt > SCP_MAX_RETRIES THEN [ok |-> FALSE, trace |-> << >>]
    ELSE IF CopySucceeds(attempt, fails)
         THEN [ok |-> TRUE, trace |-> <<"copy">>]
         ELSE LET rest == scp_attempts_no_wait(attempt + 1, fails)
              IN  [ok |-> rest.ok, trace |-> <<"copy">> \o rest.trace]

\* a retry loop that makes one attempt more than the ceiling
RECURSIVE scp_attempts_one_more(_, _)
scp_attempts_one_more(attempt, fails) ==
    IF attempt > SCP_MAX_RETRIES + 1 THEN [ok |-> FALSE, trace |-> << >>]
    ELSE IF CopySucceeds(attempt, fails)
         THEN [ok |-> TRUE, trace |-> <<"copy">>]
         ELSE LET rest == scp_attempts_one_more(attempt + 1, fails)
              IN  [ok |-> rest.ok,
                   trace |-> <<"copy">> \o BackoffAfter(attempt) \o rest.trace]

RECURSIVE scp_attempts(_, _)
scp_attempts(attempt, fails) ==
    IF attempt > SCP_MAX_RETRIES THEN [ok |-> FALSE, trace |-> << >>]
    ELSE IF CopySucceeds(attempt, fails)
         THEN [ok |-> TRUE, trace |-> <<"copy">>]
         ELSE LET rest == scp_attempts(attempt + 1, fails)
              IN  [ok |-> rest.ok,
                   trace |-> <<"copy">> \o BackoffAfter(attempt) \o rest.trace]

scp_with_retries(fails) == scp_attempts(1, fails)

Count(trace, what) == Cardinality({i \in 1..Len(trace) : trace[i] = what})
FailedCopies(r) == Count(r.trace, "copy") - (IF r.ok THEN 1 ELSE 0)

(***************************************************************************)
(* State.                                                                  *)
(***************************************************************************)
VARIABLES
    pc,                 \* the position of main
    clock,              \* time.time()
    now,                \* main's local `now`
    write_timer,        \* last-fired timestamp of the transfer timer
    del_timer,          \* last-fired timestamp of the retention timer
    images,             \* the names of the files of IMAGE_DIR
    captured,           \* how many images were ever captured
    image_files,        \* send_data's list of candidates
    next_file,          \* position of its for loop in image_files
    weather_csv,        \* LOCAL_WEATHER_CSV, a sequence of lines
    system_csv,         \* LOCAL_SYSTEM_CSV
    remote_weather,     \* SERVER_WEATHER_CSV
    remote_system,      \* SERVER_SYSTEM_CSV
    stamps,             \* how many timestamps datetime.now() has given
    budget,             \* disturbances the environment may still inject
    last_scp,           \* history: the last call of scp_with_retries
    last_pass,          \* history: the last sampling pass
    cycle,              \* history: the outcomes of the current transfer cycle
    confirmed_images,   \* history: images ever copied with success
    sent_weather,       \* history: stamps of rows ever copied with success
    sent_system,
    lost_weather,       \* history: stamps of rows truncated but never sent
    lost_system,
    truncations,        \* history: calls of del_data
    copies,             \* history: invocations of the copy primitive
    window,             \* aggregation: the sample window
    aggregate           \* aggregation: the reduced value

clockVars == <<clock, now, write_timer, del_timer>>
imageVars == <<images, captured, image_files, next_file>>
csvVars == <<weather_csv, system_csv, stamps>>
remoteVars == <<remote_weather, remote_system>>
budgetVars == <<budget>>
transferHistory ==
    <<last_scp, cycle, confirmed_images, sent_weather, sent_system, copies>>
lossHistory == <<lost_weather, lost_system, truncations>>
aggVars == <<window, aggregate>>
vars ==
    <<pc, clockVars, imageVars, csvVars, remoteVars, budgetVars,
      transferHistory, lossHistory, last_pass, aggVars>>

NoScp == [what |-> "none", image |-> 0, fails |-> 0, ok |-> FALSE, trace |-> << >>]
NoPass == [pass |-> "none", faults |-> << >>, raised |-> "none", wrote |-> FALSE]
NoCycle ==
    [backlog |-> {}, confirmed |-> {}, exhausted |-> {},
     weather |-> "none", system |-> "none"]

\* a row left in a file by an earlier run
OldWeatherRow ==
    Row(<<0, GoodReading, GoodReading, GoodReading, GoodReading, GoodReading,
          GoodReading>>)
OldSystemRow == Row(<<0, GoodReading, GoodReading, GoodReading>>)

\* The state before main runs: a first start (no CSV file, no image) or a
\* restart (both files and MaxOldImages images left by an earlier run).
Init ==
    /\ pc = "start"
    /\ clock = 0 /\ now = 0 /\ write_timer = 0 /\ del_timer = 0
    /\ \/ /\ weather_csv = Absent /\ system_csv = Absent
          /\ images = {} /\ captured = 0
       \/ /\ weather_csv = <<WeatherHeader, OldWeatherRow>>
          /\ system_csv = <<SystemHeader, OldSystemRow>>
          /\ images = 1..MaxOldImages /\ captured = MaxOldImages
    /\ image_files = << >> /\ next_file = 1
    /\ remote_weather = Absent /\ remote_system = Absent
    /\ stamps = 0
    /\ budget = MaxDisturbances
    /\ last_scp = NoScp /\ last_pass = NoPass /\ cycle = NoCycle
    /\ confirmed_images = {}
    /\ sent_weather = {} /\ sent_system = {}
    /\ lost_weather = {} /\ lost_system = {}
    /\ truncations = 0 /\ copies = 0
    /\ window = << >> /\ aggregate = NaN

(***************************************************************************)
(* main.                                                                   *)
(***************************************************************************)
\* the except clauses of main's try statement, in their order
Except(kind) ==
    IF kind = "RuntimeError" THEN "sensor_error"
    ELSE IF kind = "KeyboardInterrupt" THEN "interrupted"
    ELSE "unexpected"

\* The faults the environment injects into the passes of the main loop: a
\* sensor error and another error of an unguarded read, and an error of a
\* guarded read.
InjectedFaults ==
    {[sensor |-> "bmp_temperature", kind |-> "RuntimeError"],
     [sensor |-> "bmp_pressure", kind |-> "OSError"],
     [sensor |-> "dht", kind |-> "RuntimeError"]}
FaultInputs == {NoFault} \cup InjectedFaults
Spends(f) == IF f = NoFault THEN 0 ELSE 2

\* the environment spends `cost` of its budget
Disturb(cost) == cost <= budget /\ budget' = budget - cost

\* ensure_paths(), then the two timers are started
Start ==
    /\ pc = "start"
    /\ weather_csv' = ensure_paths(weather_csv, WeatherHeader)
    /\ system_csv' = ensure_paths(system_csv, SystemHeader)
    /\ write_timer' = clock
    /\ del_timer' = clock
    /\ pc' = "loop"
    /\ UNCHANGED <<clock, now, imageVars, stamps, remoteVars, budgetVars,
                   transferHistory, lossHistory, last_pass, aggVars>>

\* a makedata that opens the files with "w" and so keeps the new row only
AfterMakedata_overwrite(r, f, next) ==
    /\ weather_csv' = r.weather
    /\ system_csv' = r.system
    /\ stamps' = IF r.raised = "none" THEN stamps + 1 ELSE stamps
    /\ last_pass' =
           [pass |-> "makedata", faults |-> <<f>>, raised |-> r.raised,
            wrote |-> r.raised = "none"]
    /\ pc' = IF r.raised = "none" THEN next ELSE Except(r.raised)

\* A call of makedata() from main or from send_data, with the position
\* that follows it when it returns.
\* r is what makedata did
AfterMakedata(r, f, next) ==
    /\ weather_csv' = weather_csv \o r.weather
    /\ system_csv' = system_csv \o r.system
    /\ stamps' = IF r.raised = "none" THEN stamps + 1 ELSE stamps
    /\ last_pass' =
           [pass |-> "makedata", faults |-> <<f>>, raised |-> r.raised,
            wrote |-> r.raised = "none"]
    /\ pc' = IF r.raised = "none" THEN next ELSE Except(r.raised)

CallMakedata(f, next) ==
    \E r \in {makedata(f, stamps + 1)} : AfterMakedata(r, f, next)

\* line 460
LoopMakedata ==
    /\ pc = "loop"
    /\ clock <= MaxClock
    /\ \E f \in FaultInputs :
          Disturb(Spends(f)) /\ CallMakedata(f, "check_write")
    /\ UNCHANGED <<clockVars, imageVars, remoteVars, transferHistory,
                   lossHistory, aggVars>>

TransferDue(t) == (t - write_timer) >= SAMPLE_BLOCK_SECONDS
RetentionDue(t) == (t - del_timer) >= DELETE_BLOCK_SECONDS

\* lines 462-463
CheckTransferTimer ==
    /\ pc = "check_write"
    /\ now' = clock
    /\ pc' = IF TransferDue(now') THEN "fire" ELSE "check_delete"
    /\ UNCHANGED <<clock, write_timer, del_timer, imageVars, csvVars,
                   remoteVars, budgetVars, transferHistory, lossHistory,
                   last_pass, aggVars>>

\* line 464
FireMakedata ==
    /\ pc = "fire"
    /\ \E f \in FaultInputs :
          Disturb(Spends(f)) /\ CallMakedata(f, "take_pic")
    /\ UNCHANGED <<clockVars, imageVars, remoteVars, transferHistory,
                   lossHistory, aggVars>>

(***************************************************************************)
(* take_pic: makedata() once, once more in low light, and once in every    *)
(* stabilisation iteration (none in low light); then the image is saved    *)
(* under the name of its capture time.                                     *)
(***************************************************************************)
max_iterations == 30

PicPasses(low, iters) == 1 + (IF low THEN 1 ELSE 0) + iters

\* the time.sleep(0.5) calls, in whole seconds: two before the loop and one
\* in every iteration that does not break out of it
PicSeconds(iters) ==
    (2 + (IF iters = 0 THEN 0
          ELSE IF iters = max_iterations THEN iters ELSE iters - 1)) \div 2

\* The n passes of take_pic, the first at the row ordinal stamp + 1; pass j
\* meets the fault f (j = 0: no pass does).  A pass that raises ends
\* take_pic: the passes before it have written their rows, it and the
\* passes after it write nothing.
PicRows(n, j, f, stamp) ==
    LET pass == [i \in 1..n |->
                    makedata(IF i = j THEN f ELSE NoFault, stamp + i)]
        raising == {i \in 1..n : pass[i].raised # "none"}
        done == IF raising = {} THEN n
                ELSE (CHOOSE i \in raising : \A k \in raising : i <= k) - 1
    IN  [raised |-> IF done < n THEN pass[done + 1].raised ELSE "none",
         weather |-> [i \in 1..done |-> pass[i].weather[1]],
         system |-> [i \in 1..done |-> pass[i].system[1]]]

\* r holds the rows of take_pic's passes; the image is saved when no pass
\* raised
AfterPicPasses(r, f, iters) ==
    /\ weather_csv' = weather_csv \o r.weather
    /\ system_csv' = system_csv \o r.system
    /\ stamps' = stamps + Len(r.weather)
    /\ last_pass' =
           [pass |-> "makedata", faults |-> <<f>>,
            raised |-> r.raised, wrote |-> r.raised = "none"]
    /\ images' = IF r.raised = "none" THEN images \cup {captured + 1}
                  ELSE images
    /\ captured' = IF r.raised = "none" THEN captured + 1 ELSE captured
    /\ clock' = clock + PicSeconds(iters)
    /\ pc' = IF r.raised = "none" THEN "glob" ELSE Except(r.raised)

take_pic ==
    /\ pc = "take_pic"
    /\ \E low \in BOOLEAN, f \in FaultInputs :
          \E iters \in IF low THEN {0} ELSE StabIterations :
          \E j \in {0, 1, PicPasses(low, iters)} :
                /\ (j = 0) = (f = NoFault)
                /\ Disturb(Spends(f))
                /\ \E r \in {PicRows(PicPasses(low, iters), j, f, stamps)} :
                      AfterPicPasses(r, f, iters)
    /\ UNCHANGED <<now, write_timer, del_timer, image_files, next_file,
                   remoteVars, transferHistory, lossHistory, aggVars>>

(***************************************************************************)
(* send_data, after take_pic.                                              *)
(***************************************************************************)
\* lines 396-400: the candidates are listed once, before the first copy
ListImages ==
    /\ pc = "glob"
    /\ image_files' = Candidates(images)
    /\ next_file' = 1
    /\ cycle' = [NoCycle EXCEPT !.backlog = images]
    /\ pc' = IF image_files' # << >> THEN "send_images" ELSE "send_weather"
    /\ UNCHANGED <<clockVars, images, captured, csvVars, remoteVars,
                   budgetVars, last_scp, confirmed_images, sent_weather,
                   sent_system, copies, lossHistory, last_pass, aggVars>>

Outcome(r) == IF r.ok THEN "confirmed" ELSE "exhausted"

\* The environment's part in one call of scp_with_retries: how many
\* invocations fail, and whether the successful one is slow.
CopyInputs == [fails : 0..SCP_MAX_RETRIES, slow : BOOLEAN]

CopySeconds(r, in) ==
    SCP_BACKOFF_SECONDS * Count(r.trace, "sleep")
        + (IF in.slow THEN SlowCopySeconds ELSE 0)

CopySpends(r, in) == FailedCopies(r) + (IF in.slow THEN 1 ELSE 0)

\* what every call of scp_with_retries does to the clock and the history
CallScp(what, image, in, r) ==
    /\ in.slow => r.ok
    /\ clock' = clock + CopySeconds(r, in)
    /\ copies' = copies + Count(r.trace, "copy")
    /\ last_scp' =
           [what |-> what, image |-> image, fails |-> in.fails, ok |-> r.ok,
            trace |-> r.trace]

\* a for loop that removes the image whatever the copy returned
RemoveIfCopied_always(ok, path) == images \ {path}

\* a for loop that never removes the image
RemoveIfCopied_never(ok, path) == images

\* the os.remove of line 405
RemoveIfCopied(ok, path) == IF ok THEN images \ {path} ELSE images

\* lines 401-408: one turn of the for loop
SendImage ==
    /\ pc = "send_images"
    /\ \E in \in CopyInputs, f \in FaultInputs :
          LET path == image_files[next_file]
              r == scp_with_retries(in.fails)
              more == next_file < Len(image_files)
          IN  /\ Disturb(CopySpends(r, in) + Spends(f))
              /\ CallScp("image", path, in, r)
              /\ images' = RemoveIfCopied(r.ok, path)
              /\ confirmed_images' =
                     IF r.ok THEN confirmed_images \cup {path}
                     ELSE confirmed_images
              /\ cycle' =
                     IF r.ok
                     THEN [cycle EXCEPT !.confirmed = @ \cup {path}]
                     ELSE [cycle EXCEPT !.exhausted = @ \cup {path}]
              /\ next_file' = next_file + 1
              /\ CallMakedata(f, IF more THEN "send_images" ELSE "send_weather")
    /\ UNCHANGED <<now, write_timer, del_timer, captured, image_files,
                   remoteVars, sent_weather, sent_system, lossHistory,
                   aggVars>>

\* a copy that adds the rows of the local file to the remote one
scp_to_file_append(ok, local, remote) ==
    IF ~ok THEN remote
    ELSE IF remote = Absent THEN local
    ELSE remote \o Tail(local)

\* scp LOCAL host:SERVER_..._CSV, the target being the path of a file: the
\* invocation that succeeds writes the contents of the local file there, in
\* place of what the file held; when every invocation fails the remote file
\* is what it was
scp_to_file(ok, local, remote) == IF ok THEN local ELSE remote

\* a send_data that gives up the cycle when the weather log is exhausted
SendWeather_give_up ==
    /\ pc = "send_weather"
    /\ \E in \in CopyInputs :
          LET r == scp_with_retries(in.fails)
          IN  /\ Disturb(CopySpends(r, in))
              /\ CallScp("weather", 0, in, r)
              /\ remote_weather' = scp_to_file(r.ok, weather_csv, remote_weather)
              /\ sent_weather' =
                     IF r.ok THEN sent_weather \cup RowStamps(weather_csv)
                     ELSE sent_weather
              /\ cycle' = [cycle EXCEPT !.weather = Outcome(r)]
              /\ pc' = IF r.ok THEN "send_system" ELSE "reset_write"
    /\ UNCHANGED <<now, write_timer, del_timer, imageVars, csvVars,
                   remote_system, confirmed_images, sent_system,
                   lossHistory, last_pass, aggVars>>

\* lines 413-415
SendWeather ==
    /\ pc = "send_weather"
    /\ \E in \in CopyInputs :
          LET r == scp_with_retries(in.fails)
          IN  /\ Disturb(CopySpends(r, in))
              /\ CallScp("weather", 0, in, r)
              /\ remote_weather' = scp_to_file(r.ok, weather_csv, remote_weather)
              /\ sent_weather' =
                     IF r.ok THEN sent_weather \cup RowStamps(weather_csv)
                     ELSE sent_weather
              /\ cycle' = [cycle EXCEPT !.weather = Outcome(r)]
    /\ pc' = "send_system"
    /\ UNCHANGED <<now, write_timer, del_timer, imageVars, csvVars,
                   remote_system, confirmed_images, sent_system,
                   lossHistory, last_pass, aggVars>>

\* lines 418-420
SendSystem ==
    /\ pc = "send_system"
    /\ \E in \in CopyInputs :
          LET r == scp_with_retries(in.fails)
          IN  /\ Disturb(CopySpends(r, in))
              /\ CallScp("system", 0, in, r)
              /\ remote_system' = scp_to_file(r.ok, system_csv, remote_system)
              /\ sent_system' =
                     IF r.ok THEN sent_system \cup RowStamps(system_csv)
                     ELSE sent_system
              /\ cycle' = [cycle EXCEPT !.system = Outcome(r)]
    /\ pc' = "reset_write"
    /\ UNCHANGED <<now, write_timer, del_timer, imageVars, csvVars,
                   remote_weather, confirmed_images,
                   sent_weather, lossHistory, last_pass, aggVars>>

\* a fixed-rate timer, which advances by one period and so catches up
ResetWriteTimer_catch_up ==
    /\ pc = "reset_write"
    /\ write_timer' = write_timer + SAMPLE_BLOCK_SECONDS
    /\ pc' = "check_delete"
    /\ UNCHANGED <<clock, now, del_timer, imageVars, csvVars, remoteVars,
                   budgetVars, transferHistory, lossHistory, last_pass,
                   aggVars>>

\* a transfer action that restarts both timers
ResetWriteTimer_both ==
    /\ pc = "reset_write"
    /\ write_timer' = now
    /\ del_timer' = now
    /\ pc' = "check_delete"
    /\ UNCHANGED <<clock, now, imageVars, csvVars, remoteVars,
                   budgetVars, transferHistory, lossHistory, last_pass,
                   aggVars>>

\* line 466
ResetWriteTimer ==
    /\ pc = "reset_write"
    /\ write_timer' = now
    /\ pc' = "check_delete"
    /\ UNCHANGED <<clock, now, del_timer, imageVars, csvVars, remoteVars,
                   budgetVars, transferHistory, lossHistory, last_pass,
                   aggVars>>

(***************************************************************************)
(* Retention.                                                              *)
(***************************************************************************)
\* a retention check that waits for the rows to be sent
CheckDeleteTimer_gated ==
    /\ pc = "check_delete"
    /\ pc' = IF /\ (now - del_timer) >= DELETE_BLOCK_SECONDS
                /\ {weather_csv[i].cells[1] : i \in 2..Len(weather_csv)}
                       \subseteq sent_weather
             THEN "del_data" ELSE "median1"
    /\ UNCHANGED <<clockVars, imageVars, csvVars, remoteVars, budgetVars,
                   transferHistory, lossHistory, last_pass, aggVars>>

\* line 468
CheckDeleteTimer ==
    /\ pc = "check_delete"
    /\ pc' = IF RetentionDue(now) THEN "del_data" ELSE "median1"
    /\ UNCHANGED <<clockVars, imageVars, csvVars, remoteVars, budgetVars,
                   transferHistory, lossHistory, last_pass, aggVars>>

\* line 469
del_data ==
    /\ pc = "del_data"
    /\ weather_csv' = del_data_weather
    /\ system_csv' = del_data_system
    /\ lost_weather' = lost_weather \cup (RowStamps(weather_csv) \ sent_weather)
    /\ lost_system' = lost_system \cup (RowStamps(system_csv) \ sent_system)
    /\ truncations' = truncations + 1
    /\ pc' = "reset_delete"
    /\ UNCHANGED <<clockVars, imageVars, stamps, remoteVars, budgetVars,
                   transferHistory, last_pass, aggVars>>

\* a loop that forgets to reset the retention timer
ResetDeleteTimer_forgotten ==
    /\ pc = "reset_delete"
    /\ pc' = "median1"
    /\ UNCHANGED <<clockVars, imageVars, csvVars, remoteVars, budgetVars,
                   transferHistory, lossHistory, last_pass, aggVars>>

\* line 470
ResetDeleteTimer ==
    /\ pc = "reset_delete"
    /\ del_timer' = now
    /\ pc' = "median1"
    /\ UNCHANGED <<clock, now, write_timer, imageVars, csvVars, remoteVars,
                   budgetVars, transferHistory, lossHistory, last_pass,
                   aggVars>>

(***************************************************************************)
(* The two windowed passes, lines 473-474.                                 *)
(***************************************************************************)
\* The faults of the sample attempts of one window: none, or the same
\* fault in the first m attempts.
WindowFaults ==
    {[k \in 1..NSamples |-> NoFault]} \cup
    {[k \in 1..NSamples |-> IF k <= m THEN f ELSE NoFault] :
        m \in 1..NSamples, f \in InjectedFaults}

\* r is what makedata_time did
AfterMakedataTime(r, fs, lag, next) ==
    /\ weather_csv' = weather_csv \o r.weather
    /\ system_csv' = system_csv \o r.system
    /\ stamps' = IF r.wrote THEN stamps + 1 ELSE stamps
    /\ last_pass' =
           [pass |-> "makedata_time", faults |-> fs, raised |-> "none",
            wrote |-> r.wrote]
    /\ clock' = clock + MEDIAN_SAMPLES_DURATION + lag
    /\ pc' = next

CallMakedataTime(fs, lag, next) ==
    /\ Disturb(Spends(fs[1]))
    /\ \E r \in {makedata_time(fs, stamps + 1)} :
          AfterMakedataTime(r, fs, lag, next)

\* a loop with one windowed pass only
FirstMedianBlock_only ==
    /\ pc = "median1"
    /\ \E fs \in WindowFaults, lag \in WindowLags :
          CallMakedataTime(fs, lag, "loop")
    /\ UNCHANGED <<now, write_timer, del_timer, imageVars, remoteVars,
                   transferHistory, lossHistory, aggVars>>

FirstMedianBlock ==
    /\ pc = "median1"
    /\ \E fs \in WindowFaults, lag \in WindowLags :
          CallMakedataTime(fs, lag, "median2")
    /\ UNCHANGED <<now, write_timer, del_timer, imageVars, remoteVars,
                   transferHistory, lossHistory, aggVars>>

SecondMedianBlock ==
    /\ pc = "median2"
    /\ \E fs \in WindowFaults, lag \in WindowLags :
          CallMakedataTime(fs, lag, "loop")
    /\ UNCHANGED <<now, write_timer, del_timer, imageVars, remoteVars,
                   transferHistory, lossHistory, aggVars>>

(***************************************************************************)
(* The except clauses, lines 476-484.                                      *)
(***************************************************************************)
InTry ==
    {"loop", "check_write", "fire", "take_pic", "glob", "send_images",
     "send_weather", "send_system", "reset_write", "check_delete",
     "del_data", "reset_delete", "median1", "median2"}

Rest == <<now, write_timer, del_timer, imageVars, csvVars, remoteVars,
          budgetVars, transferHistory, lossHistory, last_pass, aggVars>>

\* a handler inside the iteration: after the sleep main goes on with the
\* retention check
HandleSensorError_resume ==
    /\ pc = "sensor_error"
    /\ clock' = clock + ERROR_SLEEP_SECONDS
    /\ pc' = "check_delete"
    /\ UNCHANGED Rest

\* except RuntimeError: time.sleep(2), then the next iteration
HandleSensorError ==
    /\ pc = "sensor_error"
    /\ clock' = clock + ERROR_SLEEP_SECONDS
    /\ pc' = "loop"
    /\ UNCHANGED Rest

\* a handler that goes on with the loop after any exception
HandleUnexpected_continue ==
    /\ pc = "unexpected"
    /\ pc' = "loop"
    /\ UNCHANGED <<clock, Rest>>

\* except Exception: break
HandleUnexpected ==
    /\ pc = "unexpected"
    /\ pc' = "exit"
    /\ UNCHANGED <<clock, Rest>>

\* The operator's Ctrl-C raises KeyboardInterrupt in the try statement;
\* except KeyboardInterrupt: break
KeyboardInterrupt ==
    /\ pc \in InTry
    /\ Except("KeyboardInterrupt") = "interrupted"
    /\ pc' = "interrupted"
    /\ UNCHANGED <<clock, Rest>>

(***************************************************************************)
(* Ctrl-C inside an operation.  Python raises KeyboardInterrupt in the     *)
(* main thread between any two bytecodes, also inside the functions main   *)
(* calls; nothing in them catches it, so it reaches the except clause of   *)
(* main with the operation half done.                                      *)
(***************************************************************************)
\* makedata() of line 460 or 464, interrupted after the weather row was
\* written (lines 221-226) and before the system row is (lines 228-230)
InterruptMakedata ==
    /\ pc \in {"loop", "fire"}
    /\ clock <= MaxClock
    /\ weather_csv' = weather_csv \o makedata(NoFault, stamps + 1).weather
    /\ stamps' = stamps + 1
    /\ last_pass' =
           [pass |-> "makedata", faults |-> <<NoFault>>,
            raised |-> "KeyboardInterrupt", wrote |-> FALSE]
    /\ pc' = Except("KeyboardInterrupt")
    /\ UNCHANGED <<clockVars, imageVars, system_csv, remoteVars, budgetVars,
                   transferHistory, lossHistory, aggVars>>

\* the for loop of send_data, interrupted after scp_with_retries returned
\* True (line 402) and before os.remove (line 405)
InterruptSendImage ==
    /\ pc = "send_images"
    /\ LET path == image_files[next_file]
           in == [fails |-> 0, slow |-> FALSE]
       IN  /\ CallScp("image", path, in, scp_with_retries(in.fails))
           /\ confirmed_images' = confirmed_images \cup {path}
           /\ cycle' = [cycle EXCEPT !.confirmed = @ \cup {path}]
    /\ pc' = Except("KeyboardInterrupt")
    /\ UNCHANGED <<now, write_timer, del_timer, imageVars, csvVars,
                   remoteVars, budgetVars, sent_weather, sent_system,
                   lossHistory, last_pass, aggVars>>

\* del_data, interrupted after the weather file was rewritten (lines
\* 426-436) and before the system file is (lines 438-445)
InterruptDelData ==
    /\ pc = "del_data"
    /\ weather_csv' = del_data_weather
    /\ lost_weather' = lost_weather \cup (RowStamps(weather_csv) \ sent_weather)
    /\ truncations' = truncations + 1
    /\ pc' = Except("KeyboardInterrupt")
    /\ UNCHANGED <<clockVars, imageVars, system_csv, stamps, remoteVars,
                   budgetVars, transferHistory, lost_system, last_pass,
                   aggVars>>

Next ==
    \/ Start
    \/ LoopMakedata
    \/ CheckTransferTimer
    \/ FireMakedata
    \/ take_pic
    \/ ListImages
    \/ SendImage
    \/ SendWeather
    \/ SendSystem
    \/ ResetWriteTimer
    \/ CheckDeleteTimer
    \/ del_data
    \/ ResetDeleteTimer
    \/ FirstMedianBlock
    \/ SecondMedianBlock
    \/ HandleSensorError
    \/ HandleUnexpected
    \/ KeyboardInterrupt
    \/ InterruptMakedata
    \/ InterruptSendImage
    \/ InterruptDelData

Spec == Init /\ [][Next]_vars

(***************************************************************************)
(* The aggregation on its own: a sample window is collected reading by     *)
(* reading and reduced, by np.nanmedian as makedata_time does or by        *)
(* median() as the loop of src/sensortestor.py does, which holds no NaN.   *)
(***************************************************************************)
InitAgg ==
    /\ pc = "collect"
    /\ window = << >> /\ aggregate = NaN
    /\ clock = 0 /\ now = 0 /\ write_timer = 0 /\ del_timer = 0
    /\ images = {} /\ captured = 0 /\ image_files = << >> /\ next_file = 1
    /\ weather_csv = Absent /\ system_csv = Absent
    /\ remote_weather = Absent /\ remote_system = Absent
    /\ stamps = 0 /\ budget = 0
    /\ last_scp = NoScp /\ last_pass = NoPass /\ cycle = NoCycle
    /\ confirmed_images = {}
    /\ sent_weather = {} /\ sent_system = {}
    /\ lost_weather = {} /\ lost_system = {}
    /\ truncations = 0 /\ copies = 0

mainVars ==
    <<clockVars, imageVars, csvVars, remoteVars, budgetVars, transferHistory,
      lossHistory, last_pass>>

CollectReading ==
    /\ pc = "collect"
    /\ Len(window) < MaxWindow
    /\ \E r \in Readings : window' = Append(window, r)
    /\ UNCHANGED <<pc, aggregate, mainVars>>

Reduce ==
    /\ pc = "collect"
    /\ aggregate' = nanmedian(window)
    /\ pc' = "reduced"
    /\ UNCHANGED <<window, mainVars>>

LegacyReduce ==
    /\ pc = "collect"
    /\ \A i \in 1..Len(window) : ~isnan(window[i])
    /\ aggregate' = median(window)
    /\ pc' = "legacy"
    /\ UNCHANGED <<window, mainVars>>

NextAgg == CollectReading \/ Reduce \/ LegacyReduce

SpecAgg == InitAgg /\ [][NextAgg]_vars

(***************************************************************************)
(* C7.                                                                     *)
(***************************************************************************)
ValidOf(w) == SelectSeq(w, LAMBDA x : ~isnan(x))
AtMost(v, x) == Cardinality({i \in 1..Len(v) : v[i] <= x})
Below(v, x) == Cardinality({i \in 1..Len(v) : v[i] < x})
\* the k-th smallest element of v, by counting and without ordering v
Kth(v, k) ==
    CHOOSE x \in {v[i] : i \in 1..Len(v)} : Below(v, x) < k /\ k <= AtMost(v, x)
IsStandardMedian(m, v) ==
    LET n == Len(v)
    IN  IF n = 0 THEN isnan(m)
        ELSE IF n % 2 = 1 THEN m = Kth(v, (n + 1) \div 2)
        ELSE 2 * m = Kth(v, n \div 2) + Kth(v, (n \div 2) + 1)

\* C7: the aggregate of a window is the standard median of its valid
\* readings (NaN entries excluded): the middle one of an odd count, the mean
\* of the two central ones of an even count, and NaN when none is valid.
\* median() of sensortestor.py gives the same on its NaN-free windows.
C7_AggregateIsMedian ==
    /\ pc = "reduced" => IsStandardMedian(aggregate, ValidOf(window))
    /\ (pc = "legacy" /\ window # << >>) => IsStandardMedian(aggregate, window)

\* an even number of valid readings beside a NaN, whose mean is no reading
C7_Witness ==
    /\ pc = "reduced"
    /\ \E i \in 1..Len(window) : isnan(window[i])
    /\ Len(ValidOf(window)) = 2
    /\ \A i \in 1..Len(window) : window[i] # aggregate

(***************************************************************************)
(* The transfer agent: C1, C2.                                             *)
(***************************************************************************)
\* k failing invocations, a wait after each, then the successful one
RetriedTrace(k) == [i \in 1..(2 * k + 1) |-> IF i % 2 = 1 THEN "copy" ELSE "sleep"]

\* C1: whenever the copy primitive fails on its first k < SCP_MAX_RETRIES
\* invocations and succeeds on the next, scp_with_retries returns True after
\* exactly k + 1 invocations, with one wait between two consecutive
\* invocations (k waits) and none after the successful one.
C1_ConfirmedAfterKFailures ==
    \A k \in 0..(SCP_MAX_RETRIES - 1) :
        (last_scp.what # "none" /\ last_scp.fails = k) =>
            /\ last_scp.ok
            /\ Count(last_scp.trace, "copy") = k + 1
            /\ Count(last_scp.trace, "sleep") = k
            /\ last_scp.trace = RetriedTrace(k)

\* a copy confirmed at the last attempt the ceiling allows
C1_Witness ==
    /\ last_scp.what = "image"
    /\ last_scp.fails = SCP_MAX_RETRIES - 1
    /\ last_scp.ok

InSendData == {"send_images", "send_weather", "send_system", "reset_write"}

\* a step in which a call of scp_with_retries returns False goes on in
\* send_data, unless the makedata() that follows an image raises
ExhaustedStepGoesOn ==
    (copies' # copies /\ ~last_scp'.ok) =>
        (\/ pc' \in InSendData
         \/ pc = "send_images" /\ last_pass'.raised # "none")

\* C2: when the copy primitive fails on every invocation, scp_with_retries
\* returns False after exactly SCP_MAX_RETRIES invocations, the local
\* artifact still exists, and send_data goes on with what follows the call:
\* the main loop is not left.
C2_ExhaustedAfterCeiling ==
    /\ [](/\ (last_scp.what # "none" /\ last_scp.fails >= SCP_MAX_RETRIES) =>
                /\ ~last_scp.ok
                /\ Count(last_scp.trace, "copy") = SCP_MAX_RETRIES
          /\ (last_scp.what = "image" /\ ~last_scp.ok) =>
                last_scp.image \in images
          /\ (last_scp.what = "weather" /\ ~last_scp.ok) => weather_csv # Absent
          /\ (last_scp.what = "system" /\ ~last_scp.ok) => system_csv # Absent)
    /\ [][ExhaustedStepGoesOn]_vars

\* an image whose copy was exhausted, still there when the logs are sent
C2_Witness ==
    /\ last_scp.what = "image"
    /\ last_scp.fails = SCP_MAX_RETRIES
    /\ ~last_scp.ok
    /\ last_scp.image \in images
    /\ pc = "send_weather"

(***************************************************************************)
(* Deletion and the transfer outcome: C3, C4, C5.                          *)
(***************************************************************************)
Handled == cycle.confirmed \cup cycle.exhausted
HasRows(file) == RowStamps(file) # {}
IsPrefix(a, b) ==
    /\ Len(a) <= Len(b)
    /\ \A i \in 1..Len(a) : IsHeader(a[i]) = IsHeader(b[i]) /\ SameLine(a[i], b[i])

LogCopyKeepsLogs ==
    pc \in {"send_weather", "send_system"} =>
        (/\ UNCHANGED <<weather_csv, system_csv>>
         /\ weather_csv # Absent /\ system_csv # Absent)

\* the other steps of the transfer action keep every line of both files
CycleOnlyAppends ==
    pc \in {"fire", "take_pic", "glob", "send_images", "reset_write"} =>
        (/\ IsPrefix(weather_csv, weather_csv')
         /\ IsPrefix(system_csv, system_csv'))

Min(a, b) == IF a <= b THEN a ELSE b
Listed == {image_files[i] : i \in 1..Len(image_files)}
\* chosen holds the k most recent names of all, or all of them
MostRecent(chosen, all, k) ==
    /\ chosen \subseteq all
    /\ Cardinality(chosen) = Min(k, Cardinality(all))
    /\ \A c \in chosen, o \in all \ chosen : o < c

\* C5: the candidates of a cycle are the MAX_IMAGE_FILES most recently
\* created images of the backlog found at the start of the transfer phase
\* (all of them when there are no more than that), and an older image is
\* neither given to the copy nor deleted during the cycle.
C5_MostRecentCandidates ==
    pc \in InSendData =>
        /\ MostRecent(Listed, cycle.backlog, MAX_IMAGE_FILES)
        /\ Handled \subseteq Listed
        /\ (cycle.backlog \ Listed) \subseteq images

\* a backlog above the cap: the candidates were all copied and deleted, the
\* older images are still there
C5_Witness ==
    /\ pc = "reset_write"
    /\ Cardinality(cycle.backlog) > MAX_IMAGE_FILES
    /\ cycle.confirmed = Listed
    /\ (cycle.backlog \ Listed) # {}
    /\ (cycle.backlog \ Listed) \subseteq images

(***************************************************************************)
(* The two timers: C6, C10.                                                *)
(***************************************************************************)
\* main has passed the retention check of the iteration whose `now` is t
PastRetentionCheck == pc \in {"median1", "median2"}

\* C6: with SAMPLE_BLOCK_SECONDS = 300 and DELETE_BLOCK_SECONDS = 600 and
\* both timers started at loop start, an iteration whose time check reads
\* 600 s or more (and less than twice that) has, once past its retention
\* check, seen at least one invocation of the copy primitive and exactly one
\* call of del_data, whatever the transfers returned; no call of del_data
\* comes before a time check reads 600 s.
C6_OneTruncationAfterRetention ==
    /\ (/\ PastRetentionCheck
        /\ now >= DELETE_BLOCK_SECONDS
        /\ now < 2 * DELETE_BLOCK_SECONDS) =>
            (truncations = 1 /\ copies >= 1)
    /\ now < DELETE_BLOCK_SECONDS => truncations = 0

\* the one truncation, after a cycle whose copy of the weather log was
\* exhausted and whose copy of the system log was confirmed
C6_Witness ==
    /\ PastRetentionCheck
    /\ now >= DELETE_BLOCK_SECONDS
    /\ truncations = 1
    /\ cycle.weather = "exhausted"
    /\ cycle.system = "confirmed"

\* a retention check that finds the interval elapsed goes to del_data, and
\* del_data leaves no row in either file, sent or not
RetentionFiresOnTime ==
    /\ (pc = "check_delete" /\ pc' # "interrupted") =>
          (pc' = "del_data") = ((now - del_timer) >= DELETE_BLOCK_SECONDS)
    /\ (pc = "del_data" /\ pc' # "interrupted") =>
          /\ RowStamps(weather_csv') = {}
          /\ RowStamps(system_csv') = {}
          /\ truncations' = truncations + 1

\* C10: the retention truncation depends on elapsed time only: in an
\* iteration whose time check shows DELETE_BLOCK_SECONDS elapsed, del_data
\* truncates both logs whether or not their rows were part of a confirmed
\* copy (so a row can be removed that never was).
C10_RetentionOnElapsedTimeOnly == [][RetentionFiresOnTime]_vars

\* rows of both logs were truncated that no confirmed copy ever held
C10_Witness ==
    /\ truncations >= 1
    /\ lost_weather # {}
    /\ lost_system # {}
    /\ lost_weather \cap sent_weather = {}
    /\ lost_system \cap sent_system = {}

(***************************************************************************)
(* The header of the logs: C8.                                             *)
(***************************************************************************)
\* the file starts with the given header and holds no other header line
OneHeaderFirst(file, header) ==
    /\ file # Absent
    /\ IsHeader(file[1]) /\ SameLine(file[1], header)
    /\ \A i \in 2..Len(file) : ~IsHeader(file[i])

OnlyHeader(file, header) == Len(file) = 1 /\ OneHeaderFirst(file, header)

\* C8: once ensure_paths has run, each log holds exactly one header line,
\* which is its first line and the one ensure_paths writes; del_data leaves
\* each log with that header line and nothing else, so a row appended after a
\* truncation follows an unchanged header.
C8_ExactlyOneHeaderFirst ==
    /\ pc # "start" =>
          /\ OneHeaderFirst(weather_csv, WeatherHeader)
          /\ OneHeaderFirst(system_csv, SystemHeader)
    /\ pc = "reset_delete" =>
          /\ OnlyHeader(weather_csv, WeatherHeader)
          /\ OnlyHeader(system_csv, SystemHeader)

\* rows appended to logs that ensure_paths created and del_data truncated
C8_Witness ==
    /\ truncations >= 1
    /\ remote_weather # Absent
    /\ Len(weather_csv) >= 2
    /\ Len(system_csv) >= 2
    /\ lost_weather # {}

(***************************************************************************)
(* A read that fails: C9.                                                  *)
(***************************************************************************)
\* C9 as it is stated: in every sampling pass a read that fails, whatever
\* the failure, gives the unavailable marker; the failure does not leave the
\* pass, the record is written and the main loop is not ended by it.
C9_AsStated ==
    /\ last_pass.pass # "none" =>
          (last_pass.raised = "none" /\ last_pass.wrote)
    /\ pc \notin {"sensor_error", "unexpected", "exit"}

(***************************************************************************)
(* The except clauses: C11.                                                *)
(***************************************************************************)
\* the positions of main at which a sampling pass is called
PassCalls == {"loop", "fire", "take_pic", "send_images", "median1", "median2"}

\* an exception that leaves a pass goes to the clause of its class
RaiseIsClassified ==
    (pc \in PassCalls /\ pc' # "interrupted" /\ last_pass'.raised # "none") =>
        IF last_pass'.raised = "RuntimeError" THEN pc' = "sensor_error"
        ELSE pc' = "unexpected"

\* the clause of RuntimeError sleeps and starts another iteration
SensorErrorGoesOn ==
    pc = "sensor_error" =>
        /\ pc' = "loop"
        /\ clock' > clock
        /\ UNCHANGED <<csvVars, images, write_timer, del_timer>>

\* the clause of Exception leaves the loop, and nothing is done after it
UnexpectedEndsLoop ==
    /\ pc = "unexpected" =>
          (pc' = "exit" /\ UNCHANGED <<clockVars, csvVars, imageVars, copies>>)
    /\ pc = "exit" => UNCHANGED vars

\* C11: a RuntimeError raised in an iteration is caught, the loop waits and
\* starts another iteration; any other exception ends the loop, after which
\* nothing is sampled, copied or truncated; the loop does not go round on
\* an unexpected error.
C11_ErrorsClassified ==
    /\ [][RaiseIsClassified]_vars
    /\ [][SensorErrorGoesOn]_vars
    /\ [][UnexpectedEndsLoop]_vars

\* the loop has ended on an OSError of a read, after rows were written
C11_Witness ==
    /\ pc = "exit"
    /\ last_pass.raised = "OSError"
    /\ stamps > 0
    /\ clock > 0

(***************************************************************************)
(* The timers are elapsed-time checks: C12.                                *)
(***************************************************************************)
\* an action is entered from its check only, and only when the time read by
\* the iteration is a period or more past the last-fired timestamp
FiresOnlyWhenDue ==
    /\ pc' = "fire" =>
          (pc = "check_write" /\ (now' - write_timer) >= SAMPLE_BLOCK_SECONDS)
    /\ pc' = "del_data" =>
          (pc = "check_delete" /\ (now - del_timer) >= DELETE_BLOCK_SECONDS)

\* each check is passed once in an iteration: the transfer check follows
\* the makedata() that opens the iteration, the retention check follows the
\* transfer check or the end of the transfer action
OneCheckPerIteration ==
    /\ pc' = "check_write" => pc = "loop"
    /\ pc' = "check_delete" => pc \in {"check_write", "reset_write"}
    /\ pc' = "loop" => pc \in {"start", "median2", "sensor_error"}

\* a timer that fired is set to the time of the check that fired it, however
\* long the action took: nothing is left to catch up
ResetToCheckTime ==
    /\ (pc = "reset_write" /\ pc' # "interrupted") =>
          (write_timer' = now' /\ now' = now)
    /\ (pc = "reset_delete" /\ pc' # "interrupted") =>
          (del_timer' = now' /\ now' = now)

\* C12: a timer fires at most once in an iteration and only when the time
\* check shows its period elapsed since its last-fired timestamp; after an
\* overrun it fires once at the next check and is reset to that check's
\* time (not once per missed period), and after a reset it does not fire
\* before a full period has elapsed.
C12_ElapsedTimeTimers ==
    /\ [](write_timer <= now /\ del_timer <= now /\ now <= clock)
    /\ [][FiresOnlyWhenDue]_vars
    /\ [][OneCheckPerIteration]_vars
    /\ [][ResetToCheckTime]_vars

\* the transfer action fires again, at the first check after a cycle that
\* ended with the system log and lasted longer than a slow copy
C12_Witness ==
    /\ pc = "fire"
    /\ write_timer >= SAMPLE_BLOCK_SECONDS
    /\ last_scp.what = "system"
    /\ (now - write_timer) > SAMPLE_BLOCK_SECONDS + MEDIAN_SAMPLES_DURATION
    /\ (now - write_timer) > SlowCopySeconds

(***************************************************************************)
(* A window without samples: C13.                                          *)
(***************************************************************************)
\* C13 as it is stated: every windowed pass appends one record to each
\* log, also when every read of a quantity raised in every sample attempt
\* (the fields without samples are NaN and the record is not skipped).
C13_AsStated ==
    last_pass.pass = "makedata_time" =>
        /\ last_pass.wrote
        /\ HasRows(weather_csv)
        /\ HasRows(system_csv)

(***************************************************************************)
(* The order of an iteration: C14.                                         *)
(***************************************************************************)
\* the positions an exception or an interrupt leads to
Abandoned == {"sensor_error", "unexpected", "interrupted"}

\* The steps of an iteration follow the order of the try body: makedata(),
\* the transfer check (and its action), the retention check (and its
\* action), the two windowed passes.
IterationOrder ==
    /\ pc = "loop" =>
          \/ pc' = "check_write" /\ last_pass'.pass = "makedata" /\ last_pass'.wrote
          \/ pc' \in Abandoned
    /\ pc = "check_write" => pc' \in {"fire", "check_delete", "interrupted"}
    /\ pc = "reset_write" => pc' \in {"check_delete", "interrupted"}
    /\ pc = "check_delete" => pc' \in {"del_data", "median1", "interrupted"}
    /\ pc = "del_data" => pc' \in {"reset_delete", "interrupted"}
    /\ pc = "reset_delete" => pc' \in {"median1", "interrupted"}
    /\ pc = "median1" =>
          \/ pc' = "median2" /\ last_pass'.pass = "makedata_time"
          \/ pc' = "interrupted"
    /\ pc = "median2" =>
          \/ pc' = "loop" /\ last_pass'.pass = "makedata_time"
          \/ pc' = "interrupted"

\* an iteration that is followed by another ended with its second
\* windowed pass
NoIterationCutShort == (pc' = "loop" /\ pc # "start") => pc = "median2"

CutShortOnlyBySensorError ==
    /\ (pc' = "loop" /\ pc # "start") => pc \in {"median2", "sensor_error"}
    /\ pc' = "sensor_error" =>
          (pc \in PassCalls /\ last_pass'.raised = "RuntimeError")

CycleOrder ==
    /\ pc = "take_pic" =>
          \/ pc' = "glob" /\ captured' = captured + 1
                /\ images' = images \cup {captured'}
          \/ pc' \in Abandoned /\ UNCHANGED <<images, captured>>
    /\ pc = "glob" =>
          \/ pc' = "send_images" /\ next_file' = 1 /\ copies' = copies
          \/ pc' = "interrupted"
    /\ pc = "send_images" =>
          \/ /\ copies' > copies
             /\ last_scp'.what = "image"
             /\ last_scp'.image = image_files[next_file]
             /\ next_file' = next_file + 1
             /\ \/ pc' = "send_images" /\ next_file < Len(image_files)
                \/ pc' = "send_weather" /\ next_file = Len(image_files)
                \/ pc' \in Abandoned /\ last_pass'.raised # "none"
          \/ pc' = "interrupted"
    /\ pc = "send_weather" =>
          \/ pc' = "send_system" /\ copies' > copies
                /\ last_scp'.what = "weather"
          \/ pc' = "interrupted" /\ copies' = copies
    /\ pc = "send_system" =>
          \/ pc' = "reset_write" /\ copies' > copies
                /\ last_scp'.what = "system"
          \/ pc' = "interrupted" /\ copies' = copies

\* C15: in a transfer cycle one image is captured, then each candidate
\* image is given to the copy, then the weather log, then the system log;
\* every artifact has an outcome of its own, and an exhausted outcome does
\* not keep a later artifact of the cycle from being attempted.
C15_CycleOrderIndependentOutcomes ==
    /\ [][CycleOrder]_vars
    /\ [](pc \in {"send_weather", "send_system", "reset_write"} =>
             (Handled = Listed /\ cycle.confirmed \cap cycle.exhausted = {}))
    /\ [](pc \in {"send_system", "reset_write"} => cycle.weather # "none")
    /\ [](pc = "reset_write" => cycle.system # "none")

\* a cycle whose first candidate was exhausted, and whose later candidate
\* and two logs were copied
C15_Witness ==
    /\ pc = "reset_write"
    /\ \E a \in cycle.exhausted, b \in cycle.confirmed : a < b
    /\ cycle.weather = "confirmed"
    /\ cycle.system = "confirmed"

(***************************************************************************)
(* Append is the only mutation outside del_data: C16.                      *)
(***************************************************************************)
\* b is a with rows appended at its end
RowsAppended(a, b) ==
    /\ IsPrefix(a, b)
    /\ \A i \in (Len(a) + 1)..Len(b) : ~IsHeader(b[i])

\* a step of main other than del_data (and than ensure_paths, which
\* creates the files)
AppendOnly ==
    pc \notin {"start", "del_data"} =>
        /\ RowsAppended(weather_csv, weather_csv')
        /\ RowsAppended(system_csv, system_csv')

\* a step that takes lines away is a step of del_data
OnlyDelDataRemoves ==
    (Len(weather_csv') < Len(weather_csv) \/ Len(system_csv') < Len(system_csv))
        => pc = "del_data"

\* C16: every action other than the retention truncation (single-shot
\* pass, windowed pass, capture, transfer with any outcome) leaves the lines
\* of each log as they are and in their order, with zero or more records
\* appended at the end; only del_data removes records.
C16_AppendOnlyOutsideRetention ==
    /\ [][AppendOnly]_vars
    /\ [][OnlyDelDataRemoves]_vars

\* every row ever written is in the weather log, after passes of both
\* kinds, a capture and a transfer cycle with an exhausted copy
C16_Witness ==
    /\ pc = "loop"
    /\ truncations = 0
    /\ captured >= 1
    /\ cycle.weather = "exhausted"
    /\ stamps >= 6
    /\ (1..stamps) \subseteq RowStamps(weather_csv)
    /\ (1..stamps) \subseteq RowStamps(system_csv)

(***************************************************************************)
(* The operator's interrupt: C17.                                          *)
(***************************************************************************)
\* C17 as it is stated: an interrupt takes effect between iterations only,
\* an operation that has started runs to completion; so when the loop has
\* ended on an interrupt both logs hold the same records (none was written
\* or truncated without the other) and no image whose copy was confirmed is
\* left undeleted.
C17_AsStated ==
    pc = "interrupted" =>
        /\ RowStamps(weather_csv) = RowStamps(system_csv)
        /\ confirmed_images \cap images = {}

(***************************************************************************)
(* The two timers are independent: C18.                                    *)
(***************************************************************************)
\* after main has started its timers, the transfer timer is changed by
\* the reset that ends the transfer action and by nothing else, the
\* retention timer by the reset that follows del_data and by nothing else
TimersChangeApart ==
    /\ write_timer' # write_timer =>
          \/ pc = "start"
          \/ pc = "reset_write" /\ write_timer' = now /\ del_timer' = del_timer
    /\ del_timer' # del_timer =>
          \/ pc = "start"
          \/ pc = "reset_delete" /\ del_timer' = now /\ write_timer' = write_timer

\* the steps of an action and of an iteration in which nothing fires leave
\* both timers as they are
OtherStepsKeepTimers ==
    pc \notin {"start", "reset_write", "reset_delete"} =>
        UNCHANGED <<write_timer, del_timer>>

\* C18: firing the transfer action changes the last-fired timestamp of the
\* transfer timer only, firing the retention changes that of the retention
\* timer only, and an iteration in which neither fires changes neither.
C18_TimersIndependent ==
    /\ [][TimersChangeApart]_vars
    /\ [][OtherStepsKeepTimers]_vars

\* both timers have fired and hold different timestamps
C18_Witness ==
    /\ pc = "median1"
    /\ del_timer >= DELETE_BLOCK_SECONDS
    /\ write_timer > del_timer
    /\ truncations = 1

(***************************************************************************)
(* A sensor error in the transfer action: C19.                             *)
(***************************************************************************)
\* the positions of the transfer action at which a sampling pass runs:
\* makedata() of line 464, take_pic, the for loop of send_data
TransferPasses == {"fire", "take_pic", "send_images"}

\* a RuntimeError that leaves the transfer action leaves both timers and
\* the logs' retention as they were, with the transfer still due
AbortKeepsTimers ==
    (pc \in TransferPasses /\ pc' = "sensor_error") =>
        /\ UNCHANGED <<write_timer, del_timer, now, truncations>>
        /\ last_pass'.raised = "RuntimeError"
        /\ TransferDue(now)

\* a transfer that is due stays due until the reset that ends the action
DueUntilReset ==
    (pc \notin {"start", "reset_write"} /\ TransferDue(clock)) =>
        (clock' - write_timer') >= SAMPLE_BLOCK_SECONDS

\* the check of an iteration that finds the transfer due fires it
DueFires ==
    (pc = "check_write" /\ TransferDue(clock) /\ pc' # "interrupted") =>
        pc' = "fire"

\* while the transfer is due the retention check is reached through the
\* end of the transfer action only, and del_data through that check only
RetentionBehindTransfer ==
    /\ (pc' = "check_delete" /\ TransferDue(clock)) => pc = "reset_write"
    /\ truncations' # truncations => pc = "del_data"
    /\ pc' = "del_data" => pc = "check_delete"

InitLive ==
    /\ pc = "start"
    /\ clock = 0 /\ now = 0 /\ write_timer = 0 /\ del_timer = 0
    /\ \/ /\ weather_csv = Absent /\ system_csv = Absent
          /\ images = {} /\ captured = 0
       \/ /\ weather_csv = <<WeatherHeader, OldWeatherRow>>
          /\ system_csv = <<SystemHeader, OldSystemRow>>
          /\ images = 1..MaxOldImages /\ captured = MaxOldImages
    /\ image_files = << >> /\ next_file = 1
    /\ remote_weather = Absent /\ remote_system = Absent
    /\ stamps = 0
    /\ budget = 0
    /\ last_scp = NoScp /\ last_pass = NoPass /\ cycle = NoCycle
    /\ confirmed_images = {}
    /\ sent_weather = {} /\ sent_system = {}
    /\ lost_weather = {} /\ lost_system = {}
    /\ truncations = 0 /\ copies = 0
    /\ window = << >> /\ aggregate = NaN

NextLive ==
    \/ Start
    \/ LoopMakedata
    \/ CheckTransferTimer
    \/ FireMakedata
    \/ take_pic
    \/ ListImages
    \/ SendImage
    \/ SendWeather
    \/ SendSystem
    \/ ResetWriteTimer
    \/ CheckDeleteTimer
    \/ del_data
    \/ ResetDeleteTimer
    \/ FirstMedianBlock
    \/ SecondMedianBlock

SpecLive == InitLive /\ [][NextLive]_vars /\ WF_vars(NextLive)

(***************************************************************************)
(* The backlog drains: C20.                                                *)
(***************************************************************************)
\* the names an image can have within the horizon of the clock
ImageNames == 1..(MaxOldImages + MaxClock \div SAMPLE_BLOCK_SECONDS)

HeaderThenRows(file) ==
    /\ file # Absent
    /\ IsHeader(file[1])
    /\ \A i \in 2..Len(file) : ~IsHeader(file[i])

\* local is the log when the copy starts, remote the remote file when the
\* confirmed copy has returned, sent the records confirmed up to then
ReplacedBy(local, remote, sent) ==
    /\ remote = local
    /\ HeaderThenRows(remote)
    /\ RowStamps(local) \subseteq sent
    /\ (sent \ RowStamps(local)) \cap RowStamps(remote) = {}

WeatherCopyReplaces ==
    (pc = "send_weather" /\ pc' = "send_system" /\ last_scp'.ok) =>
        /\ ReplacedBy(weather_csv, remote_weather', sent_weather')
        /\ UNCHANGED <<weather_csv, remote_system>>

SystemCopyReplaces ==
    (pc = "send_system" /\ pc' = "reset_write" /\ last_scp'.ok) =>
        /\ ReplacedBy(system_csv, remote_system', sent_system')
        /\ UNCHANGED <<system_csv, remote_weather>>

\* no other step writes the remote files
OnlyCopiesWriteRemote ==
    pc \notin {"send_weather", "send_system"} =>
        UNCHANGED <<remote_weather, remote_system>>

ConfirmedCopyReplaces ==
    WeatherCopyReplaces /\ SystemCopyReplaces /\ OnlyCopiesWriteRemote

=============================================================================
